---- MODULE Spec2Model ----
(***************************************************************************)
(* Model of package errs: the HTTP translators HTTPErrorResponse and       *)
(* HTTPError, the response helper sendError, the builder RE and            *)
(* StripStack.  Go strings are sequences of one-character strings, so that *)
(* strings.Index and the slice errStr[idx+3:] are computed on characters.  *)
(* *Error values live in a heap (address = index), because the code works  *)
(* through pointers and copies.                                            *)
(***************************************************************************)
EXTENDS Integers, Sequences, FiniteSets, TLC

VARIABLES heap, ret, resp, log, op, pc

vars == <<heap, ret, resp, log, op, pc>>

(* ------------------------------ bounds -------------------------------- *)

\* longest argument list given to RE
MaxArgs == 2

(* --------------------------- classifications -------------------------- *)

Kinds ==
    {"Other", "Invalid", "Permission", "IO", "Exist", "NotExist", "Private",
     "Internal", "BrokenLink", "Database", "Validation", "Unanticipated",
     "InvalidRequest", "Unauthenticated", "Unauthorized"}

\* the zero value of Kind
Other == "Other"

KindString(k) ==
    CASE k = "Other"           -> <<"O","t","h","e","r">>
      [] k = "Invalid"         -> <<"I","n","v","a","l","i","d">>
      [] k = "Permission"      -> <<"P","e","r","m","i","s","s","i","o","n">>
      [] k = "IO"              -> <<"I","O">>
      [] k = "Exist"           -> <<"E","x","i","s","t">>
      [] k = "NotExist"        -> <<"N","o","t","E","x","i","s","t">>
      [] k = "Private"         -> <<"P","r","i","v","a","t","e">>
      [] k = "Internal"        -> <<"I","n","t","e","r","n","a","l">>
      [] k = "BrokenLink"      -> <<"B","r","o","k","e","n","L","i","n","k">>
      [] k = "Database"        -> <<"D","a","t","a","b","a","s","e">>
      [] k = "Validation"      -> <<"V","a","l","i","d","a","t","i","o","n">>
      [] k = "Unanticipated"   -> <<"U","n","a","n","t","i","c","i","p","a","t","e","d">>
      [] k = "InvalidRequest"  -> <<"I","n","v","a","l","i","d","R","e","q","u","e","s","t">>
      [] k = "Unauthenticated" -> <<"U","n","a","u","t","h","e","n","t","i","c","a","t","e","d">>
      [] k = "Unauthorized"    -> <<"U","n","a","u","t","h","o","r","i","z","e","d">>

(* ------------------------------ values -------------------------------- *)

EmptyStr == <<>>

\* values of the interface type error
NilErr == [t |-> "nil"]
Ptr(a) == [t |-> "ptr", p |-> a]
Plain(m) == [t |-> "plain", msg |-> m]
HPtr(v) == [t |-> "http", v |-> v]

\* the outcome of a call that panicked
Panic == [t |-> "panic"]

\* input sets
Codes == {EmptyStr, <<"c">>}
Params == {EmptyStr, <<"p">>}
Locs == {EmptyStr, <<"f">>}
Msgs == {<<"m">>}
PlainErrs == {Plain(m) : m \in Msgs}
OtherErrs == {Plain(<<"b", "a", "d">>)}

\* the Error Values request-handling code hands over
ErrorVals ==
    [Kind : Kinds, Code : Codes, Param : Params, Err : {NilErr} \cup PlainErrs,
     Loc : Locs, StripError : {FALSE}]

\* the Error Value of a lower layer, which the handler's value may wrap
InnerVals ==
    {[Kind |-> "Database", Code |-> EmptyStr, Param |-> EmptyStr,
      Err |-> Plain(<<"m">>), Loc |-> <<"g">>, StripError |-> FALSE]}

\* the heaps a request starts from: the handler's Error Value alone, or
\* wrapping a lower layer's
Heaps ==
    {<<e>> : e \in ErrorVals}
    \cup {<<i, [e EXCEPT !.Err = Ptr(1)]>> : i \in InnerVals,
                                            e \in {v \in ErrorVals : v.Err.t = "nil"}}

\* HTTPErr{}
ZeroHTTPErr ==
    [HTTPStatusCode |-> 0, Kind |-> Other, Param |-> EmptyStr, Code |-> EmptyStr,
     Err |-> NilErr]

(* ------------------------------ strings ------------------------------- *)

\* the marker StripStack looks for, and the separator character after it
Delim == <<"|", ":">>
Sep == <<" ">>

\* strings.Index(s, "|:"): the 0-based position of the first occurrence, or -1
Index(s) ==
    LET hits == {i \in 0..(Len(s) - 2) : s[i + 1] = Delim[1] /\ s[i + 2] = Delim[2]}
    IN  IF hits = {} THEN -1 ELSE CHOOSE i \in hits : \A j \in hits : i <= j

\* s[k:], for 0 <= k <= len(s)
SliceFrom(s, k) == SubSeq(s, k + 1, Len(s))

\* (*Error).isZero
isZero(e) ==
    e.Kind = Other /\ e.Param = EmptyStr /\ e.Code = EmptyStr /\ e.Err.t = "nil"

RECURSIVE ErrorString(_, _)

\* (*Error).Error: the location, the kind unless Other, the code, the
\* parameter, then the marker, a separator and the cause's string; a value
\* already stripped renders as the message put in its place
Render(h, e) ==
    LET cause == IF e.Err.t = "nil" THEN EmptyStr ELSE ErrorString(h, e.Err)
    IN  IF e.StripError
        THEN cause
        ELSE e.Loc
             \o (IF e.Kind # Other THEN KindString(e.Kind) ELSE EmptyStr)
             \o e.Code
             \o e.Param
             \o (IF e.Err.t = "nil" THEN EmptyStr ELSE Delim \o Sep \o cause)

\* HTTPErr.Error
HTTPErrError(h, hse) ==
    IF hse.Err.t = "nil" THEN EmptyStr ELSE ErrorString(h, hse.Err)

\* err.Error() for a non-nil error value, read through heap h
ErrorString(h, err) ==
    CASE err.t = "plain" -> err.msg
      [] err.t = "http" -> HTTPErrError(h, err.v)
      [] err.t = "ptr" -> Render(h, h[err.p])

\* StripStack(e): the error returned, or Panic when the slice is out of range
StripStack(h, err) ==
    IF err.t = "ptr"
    THEN LET errStr == ErrorString(h, err)
             idx == Index(errStr)
         IN  IF idx + 3 > Len(errStr)
             THEN Panic
             ELSE Plain(SliceFrom(errStr, idx + 3))
    ELSE err

(* --------------------------- response writer -------------------------- *)

\* a new http.ResponseWriter: no header set, no status line, no body
NewWriter ==
    [ctype |-> FALSE, nosniff |-> FALSE, statusWrites |-> 0, status |-> 0,
     body |-> <<>>]

\* fmt.Fprintln(w, s): s and a newline are written to the body
Fprintln(w, s) == [w EXCEPT !.body = w.body \o <<s, "\n">>]

\* sendError of httperrors.go
sendError(w, errStr, httpStatusCode) ==
    LET w1 == IF errStr # EmptyStr THEN [w EXCEPT !.ctype = TRUE] ELSE w
        w2 == [w1 EXCEPT !.nosniff = TRUE]
        w3 == [w2 EXCEPT !.statusWrites = @ + 1, !.status = httpStatusCode]
    IN  IF errStr # EmptyStr THEN Fprintln(w3, errStr) ELSE w3

\* sendError of the HTTPError translator
sendError_HTTPError(w, error, statusCode_) ==
    LET w1 == [w EXCEPT !.ctype = TRUE]
        w2 == [w1 EXCEPT !.nosniff = TRUE]
        w3 == [w2 EXCEPT !.statusWrites = @ + 1, !.status = statusCode_]
    IN  IF error # EmptyStr THEN Fprintln(w3, error) ELSE w3

(* ------------------------------ the body ------------------------------ *)

\* ServiceError{Kind, Code, Param, Message}
ServiceError(kind, code, param, message) ==
    [Kind |-> kind, Code |-> code, Param |-> param, Message |-> message]

OmitEmpty(name, value) == IF value = EmptyStr THEN <<>> ELSE << <<name, value>> >>

\* json.Marshal(ErrResponse{Error: se}): the members of the "error" object in
\* field order, a member being left out when its value is empty (omitempty)
Marshal(se) ==
    << <<"error",
         OmitEmpty("kind", se.Kind) \o OmitEmpty("code", se.Code)
         \o OmitEmpty("param", se.Param) \o OmitEmpty("message", se.Message)>> >>

S_Unanticipated == <<"U","n","a","n","t","i","c","i","p","a","t","e","d">>

S_ContactSupport ==
    <<"U","n","e","x","p","e","c","t","e","d"," ","e","r","r","o","r"," ","-"," ",
      "c","o","n","t","a","c","t"," ","s","u","p","p","o","r","t">>

StatusUnauthorized == 401
StatusForbidden == 403
StatusBadRequest == 400
StatusInternalServerError == 500

\* statusCode with the Permission entry taken from the line above it
statusCode_PermissionAs401(k) ==
    CASE k \in {"Unauthenticated", "Permission"} -> StatusUnauthorized
      [] k = "Unauthorized" -> StatusForbidden
      [] k \in {"Other", "Invalid", "Exist", "NotExist", "Private", "BrokenLink",
                "Validation", "InvalidRequest"} -> StatusBadRequest
      [] k \in {"IO", "Internal", "Database", "Unanticipated"} ->
            StatusInternalServerError

\* the statusCode map of HTTPErrorResponse
statusCode(k) ==
    CASE k = "Unauthenticated" -> StatusUnauthorized
      [] k \in {"Unauthorized", "Permission"} -> StatusForbidden
      [] k \in {"Other", "Invalid", "Exist", "NotExist", "Private", "BrokenLink",
                "Validation", "InvalidRequest"} -> StatusBadRequest
      [] k \in {"IO", "Internal", "Database", "Unanticipated"} ->
            StatusInternalServerError

\* the default arm sending the error's own text to the client
UnanticipatedResponse_OwnText(err) ==
    ServiceError(KindString("Unanticipated"), S_Unanticipated, EmptyStr,
                 IF err.t = "plain" THEN err.msg ELSE S_ContactSupport)

\* the response to an error of no recognised type (the default arm)
UnanticipatedResponse(err) ==
    ServiceError(KindString("Unanticipated"), S_Unanticipated, EmptyStr,
                 S_ContactSupport)

(* ------------------------------ logging ------------------------------- *)

\* one entry of the error log: the message template, the status field and
\* the error text put in it
LogEntry(event, status, text) == [event |-> event, status |-> status, text |-> text]

\* what a call hands back: the heap, the writer, the log entries, the result
Outcome(h, w, l, r) == [heap |-> h, resp |-> w, log |-> l, ret |-> r]

Void == [t |-> "void"]

(* ------------------------- HTTPErrorResponse -------------------------- *)

\* the if/else chain without the arm for Unauthorized
ErrorBranch_NoUnauthorized(e) ==
    IF isZero(e) THEN "zero"
    ELSE IF e.Kind = "Unauthenticated" THEN "unauthenticated"
    ELSE "body"

\* the arm of the if/else chain that HTTPErrorResponse takes for *Error e
ErrorBranch(e) ==
    IF isZero(e) THEN "zero"
    ELSE IF e.Kind = "Unauthenticated" THEN "unauthenticated"
    ELSE IF e.Kind = "Unauthorized" THEN "unauthorized"
    ELSE "body"

\* the final else arm: copy, log, strip, attach, marshal, send
ErrorBody(h, w, a) ==
    LET e == h[a]
        httpStatusCode == statusCode(e.Kind)
        h1 == Append(h, e)
        n == Len(h1)
        fullErr == Ptr(n)
        entry == LogEntry("Response Error Sent", httpStatusCode, ErrorString(h1, fullErr))
        stripped == StripStack(h1, fullErr)
        h2 == [h1 EXCEPT ![n] = [@ EXCEPT !.Err = stripped, !.StripError = TRUE],
                         ![a] = [@ EXCEPT !.Err = fullErr]]
        er == ServiceError(KindString(e.Kind), e.Code, e.Param, ErrorString(h2, Ptr(a)))
    IN  IF stripped.t = "panic"
        THEN Outcome(h, w, <<entry>>, Panic)
        ELSE Outcome(h2, sendError(w, Marshal(er), httpStatusCode), <<entry>>, Void)

HTTPErrorResponse(h, w, err) ==
    IF err.t # "nil"
    THEN IF err.t = "ptr"
         THEN LET e == h[err.p]
                  httpStatusCode == statusCode(e.Kind)
                  branch == ErrorBranch(e)
              IN  CASE branch = "zero" ->
                        Outcome(h, sendError(w, EmptyStr, httpStatusCode),
                                <<LogEntry("", httpStatusCode, EmptyStr)>>, Void)
                    [] branch = "unauthenticated" ->
                        Outcome(h, sendError(w, EmptyStr, httpStatusCode),
                                <<LogEntry("", StatusUnauthorized, ErrorString(h, err))>>,
                                Void)
                    [] branch = "unauthorized" ->
                        Outcome(h, sendError(w, EmptyStr, httpStatusCode),
                                <<LogEntry("", StatusForbidden, ErrorString(h, err))>>,
                                Void)
                    [] OTHER -> ErrorBody(h, w, err.p)
         ELSE LET cd == StatusInternalServerError
                  er == UnanticipatedResponse(err)
              IN  Outcome(h, sendError(w, Marshal(er), cd),
                          <<LogEntry("Unknown Error - HTTP", cd, ErrorString(h, err))>>,
                          Void)
    ELSE LET httpStatusCode == statusCode(Other)
         IN  Outcome(h, sendError(w, EmptyStr, httpStatusCode),
                     <<LogEntry("nil error - no response body sent", httpStatusCode,
                                EmptyStr)>>, Void)

(* ------------------------------ HTTPError ----------------------------- *)

\* HTTPErr.ErrKind
ErrKind(hse) == IF hse.Kind = Other THEN EmptyStr ELSE KindString(hse.Kind)

\* (*HTTPErr).StatusOnly
StatusOnly(hse) ==
    /\ hse.HTTPStatusCode # 0
    /\ hse.Kind = Other
    /\ hse.Param = EmptyStr
    /\ hse.Code = EmptyStr
    /\ hse.Err.t = "nil"

HTTPError(h, w, err) ==
    IF err.t # "nil"
    THEN IF err.t = "http"
         THEN LET e == err.v
                  entry == IF StatusOnly(e)
                           THEN LogEntry("", e.HTTPStatusCode, EmptyStr)
                           ELSE LogEntry("HTTP", e.HTTPStatusCode, ErrorString(h, err))
                  er == ServiceError(ErrKind(e), e.Code, e.Param, ErrorString(h, err))
              IN  IF StatusOnly(e)
                  THEN Outcome(h, sendError_HTTPError(w, EmptyStr, e.HTTPStatusCode),
                               <<entry>>, Void)
                  ELSE Outcome(h, sendError_HTTPError(w, Marshal(er), e.HTTPStatusCode),
                               <<entry>>, Void)
         ELSE LET cd == StatusInternalServerError
                  er == UnanticipatedResponse(err)
              IN  Outcome(h, sendError_HTTPError(w, Marshal(er), cd),
                          <<LogEntry("Unknown Error - HTTP", cd, ErrorString(h, err))>>,
                          Void)
    ELSE Outcome(h, w, <<>>, Void)

(* --------------------------------- RE --------------------------------- *)

\* an argument of RE: its dynamic type and its value (an int or an address
\* in n, a Kind in k, a string in s, an error in x)
Arg(ty, n, k, s, x) == [ty |-> ty, n |-> n, k |-> k, s |-> s, x |-> x]
IntArg(n) == Arg("int", n, Other, EmptyStr, NilErr)
KindArg(k) == Arg("Kind", 0, k, EmptyStr, NilErr)
StringArg(s) == Arg("string", 0, Other, s, NilErr)
CodeArg(s) == Arg("Code", 0, Other, s, NilErr)
ParameterArg(s) == Arg("Parameter", 0, Other, s, NilErr)
ErrorPtrArg(a) == Arg("*Error", a, Other, EmptyStr, NilErr)
ErrorArg(x) == Arg("error", 0, Other, EmptyStr, x)
BoolArg == Arg("bool", 0, Other, EmptyStr, NilErr)

S_UnknownType == <<"u","n","k","n","o","w","n"," ","t","y","p","e">>

\* the loop state of RE: the value being built, the heap, the log, and
\* whether the call has already ended (early return or panic)
REState(e, h, l, done, r) == [e |-> e, heap |-> h, log |-> l, done |-> done, ret |-> r]

\* case *Error working on the argument itself instead of a copy of it
REErrorArg_NoCopy(st, a) ==
    LET fullErr == Ptr(a)
        entry == LogEntry("Response Error (RE)", st.e.HTTPStatusCode,
                          ErrorString(st.heap, fullErr))
        stripped == StripStack(st.heap, fullErr)
        h2 == [st.heap EXCEPT ![a] = [@ EXCEPT !.Err = stripped, !.StripError = TRUE]]
    IN  IF stripped.t = "panic"
        THEN REState(st.e, st.heap, Append(st.log, entry), TRUE, Panic)
        ELSE REState([st.e EXCEPT !.Err = fullErr], h2, Append(st.log, entry),
                     FALSE, Void)

\* case *Error: copy the argument, log the copy, strip it, attach it
REErrorArg(st, a) ==
    LET h1 == Append(st.heap, st.heap[a])
        n == Len(h1)
        fullErr == Ptr(n)
        entry == LogEntry("Response Error (RE)", st.e.HTTPStatusCode,
                          ErrorString(h1, fullErr))
        stripped == StripStack(h1, fullErr)
        h2 == [h1 EXCEPT ![n] = [@ EXCEPT !.Err = stripped, !.StripError = TRUE]]
    IN  IF stripped.t = "panic"
        THEN REState(st.e, st.heap, Append(st.log, entry), TRUE, Panic)
        ELSE REState([st.e EXCEPT !.Err = fullErr], h2, Append(st.log, entry),
                     FALSE, Void)

\* the body of the loop over args: the type switch
REArg(st, arg) ==
    CASE arg.ty = "int" -> [st EXCEPT !.e.HTTPStatusCode = arg.n]
      [] arg.ty = "Kind" -> [st EXCEPT !.e.Kind = arg.k]
      [] arg.ty = "string" -> [st EXCEPT !.e.Code = arg.s]
      [] arg.ty = "Code" -> [st EXCEPT !.e.Code = arg.s]
      [] arg.ty = "Parameter" -> [st EXCEPT !.e.Param = arg.s]
      [] arg.ty = "*Error" -> REErrorArg(st, arg.n)
      [] arg.ty = "error" -> [st EXCEPT !.e.Err = arg.x]
      [] OTHER ->
            REState(st.e, st.heap,
                    Append(st.log, LogEntry("errors.E: bad call", 0, EmptyStr)),
                    TRUE, Plain(S_UnknownType))

RECURSIVE RELoop(_, _, _)
RELoop(st, args, i) ==
    IF i > Len(args) \/ st.done
    THEN st
    ELSE RELoop(REArg(st, args[i]), args, i + 1)

\* the suppression without the test prev.Kind == e.Kind
Dedup_NoKindTest(e, prev) ==
    LET p1 == prev
        e1 == IF e.Kind = Other THEN [e EXCEPT !.Kind = p1.Kind] ELSE e
        p2 == IF e.Kind = Other THEN [p1 EXCEPT !.Kind = Other] ELSE p1
        p3 == IF p2.Code = e1.Code THEN [p2 EXCEPT !.Code = EmptyStr] ELSE p2
        e2 == IF e1.Code = EmptyStr THEN [e1 EXCEPT !.Code = p3.Code] ELSE e1
        p4 == IF e1.Code = EmptyStr THEN [p3 EXCEPT !.Code = EmptyStr] ELSE p3
        p5 == IF p4.Param = e2.Param THEN [p4 EXCEPT !.Param = EmptyStr] ELSE p4
        e3 == IF e2.Param = EmptyStr THEN [e2 EXCEPT !.Param = p5.Param] ELSE e2
        p6 == IF e2.Param = EmptyStr THEN [p5 EXCEPT !.Param = EmptyStr] ELSE p5
    IN  [e |-> e3, prev |-> p6]

\* the suppression of duplications between the value built (e) and the
\* wrapped *Error (prev); the pair after it
Dedup(e, prev) ==
    LET p1 == IF prev.Kind = e.Kind THEN [prev EXCEPT !.Kind = Other] ELSE prev
        e1 == IF e.Kind = Other THEN [e EXCEPT !.Kind = p1.Kind] ELSE e
        p2 == IF e.Kind = Other THEN [p1 EXCEPT !.Kind = Other] ELSE p1
        p3 == IF p2.Code = e1.Code THEN [p2 EXCEPT !.Code = EmptyStr] ELSE p2
        e2 == IF e1.Code = EmptyStr THEN [e1 EXCEPT !.Code = p3.Code] ELSE e1
        p4 == IF e1.Code = EmptyStr THEN [p3 EXCEPT !.Code = EmptyStr] ELSE p3
        p5 == IF p4.Param = e2.Param THEN [p4 EXCEPT !.Param = EmptyStr] ELSE p4
        e3 == IF e2.Param = EmptyStr THEN [e2 EXCEPT !.Param = p5.Param] ELSE e2
        p6 == IF e2.Param = EmptyStr THEN [p5 EXCEPT !.Param = EmptyStr] ELSE p5
    IN  [e |-> e3, prev |-> p6]

RE(h, w, args) ==
    IF Len(args) = 0
    THEN Outcome(h, w, <<>>, Panic)
    ELSE LET st == RELoop(REState(ZeroHTTPErr, h, <<>>, FALSE, Void), args, 1)
         IN  IF st.done
             THEN \* the copies taken so far are local to the call
                  Outcome(h, w, st.log, st.ret)
             ELSE IF st.e.Err.t # "ptr"
             THEN Outcome(st.heap, w, st.log, HPtr(st.e))
             ELSE LET a == st.e.Err.p
                      d == Dedup(st.e, st.heap[a])
                  IN  Outcome([st.heap EXCEPT ![a] = d.prev], w, st.log, HPtr(d.e))

(* ------------------------------ the calls ----------------------------- *)

\* the errors a caller can pass: nil, a plain error, a pointer to an Error
\* Value, or the value RE returned
Inputs ==
    {NilErr} \cup PlainErrs \cup OtherErrs \cup {Ptr(a) : a \in DOMAIN heap}
    \cup (IF ret.t \in {"http", "plain"} THEN {ret} ELSE {})

StatusArgs == {404}
KindArgs == {"Validation", "Database"}
ParamArgs == {<<"p">>, <<"q">>}

ArgVals ==
    {IntArg(n) : n \in StatusArgs}
    \cup {KindArg(k) : k \in KindArgs}
    \cup {StringArg(<<"c">>), CodeArg(<<"d">>)}
    \cup {ParameterArg(p) : p \in ParamArgs}
    \cup {ErrorPtrArg(a) : a \in DOMAIN heap}
    \cup {ErrorArg(x) : x \in PlainErrs}
    \cup {BoolArg}

ArgLists == UNION {[1..n -> ArgVals] : n \in 0..MaxArgs}

\* the call made last: its name, its error argument, its argument list, and
\* the heap it was made on
Call(name, err, args) == [name |-> name, err |-> err, args |-> args, pre |-> heap]

\* A request: the handler holds an Error Value (pc = "handler"), may wrap it
\* with RE (pc = "built"), and hands an error to one of the translators or to
\* StripStack (pc = "done").
Commit(out, call, next) ==
    /\ heap' = out.heap
    /\ resp' = out.resp
    /\ log' = out.log
    /\ ret' = out.ret
    /\ op' = call
    /\ pc' = next

Init ==
    /\ heap \in Heaps
    /\ ret = Void
    /\ resp = NewWriter
    /\ log = <<>>
    /\ op = [name |-> "none", err |-> NilErr, args |-> <<>>, pre |-> heap]
    /\ pc = "handler"

CallRE ==
    /\ pc = "handler"
    /\ \E args \in ArgLists :
          Commit(RE(heap, NewWriter, args), Call("RE", NilErr, args), "built")

CallHTTPErrorResponse ==
    /\ pc \in {"handler", "built"}
    /\ \E err \in Inputs :
          Commit(HTTPErrorResponse(heap, NewWriter, err),
                 Call("HTTPErrorResponse", err, <<>>), "done")

CallHTTPError ==
    /\ pc \in {"handler", "built"}
    /\ \E err \in Inputs :
          Commit(HTTPError(heap, NewWriter, err), Call("HTTPError", err, <<>>), "done")

CallStripStack ==
    /\ pc \in {"handler", "built"}
    /\ \E err \in Inputs :
          Commit(Outcome(heap, NewWriter, <<>>, StripStack(heap, err)),
                 Call("StripStack", err, <<>>), "done")

Next ==
    \/ CallRE
    \/ CallHTTPErrorResponse
    \/ CallHTTPError
    \/ CallStripStack

Spec == Init /\ [][Next]_vars

(* ------------------------------ the claims ---------------------------- *)

\* the Error Value a translator or StripStack was called with, as it was
\* when the call was made
CalledWith == op.pre[op.err.p]

OnErrorValue(name) == op.name = name /\ op.err.t = "ptr"

\* the fixed mapping of classification to status, as the specification tables it
TableStatus(k) ==
    IF k = "Unauthenticated" THEN 401
    ELSE IF k \in {"Unauthorized", "Permission"} THEN 403
    ELSE IF k \in {"IO", "Internal", "Database", "Unanticipated"} THEN 500
    ELSE 400

\* the members of the "error" object of the body written
BodyMembers == resp.body[1][1][2]
MemberNames == {BodyMembers[i][1] : i \in DOMAIN BodyMembers}

KindOnly ==
    /\ OnErrorValue("HTTPErrorResponse")
    /\ CalledWith.Code = EmptyStr
    /\ CalledWith.Param = EmptyStr
    /\ CalledWith.Err.t = "nil"

\* C1 as stated: an Error Value holding only a kind K is answered with the
\* status of K and an empty body, for every K.
C1_StatusOnlyForEveryKind ==
    KindOnly =>
        /\ resp.statusWrites = 1
        /\ resp.status = TableStatus(CalledWith.Kind)
        /\ resp.body = <<>>

\* C1 amended: an Error Value holding only a kind K is answered with the
\* status of K, written once; the body is empty exactly when K is Other,
\* Unauthenticated or Unauthorized, and otherwise its first member is the kind
\* with the name of K and it has no code and no param member.
C1_StatusForEveryKind ==
    KindOnly =>
        /\ ret = Void
        /\ resp.statusWrites = 1
        /\ resp.status = TableStatus(CalledWith.Kind)
        /\ (resp.body = <<>>) <=>
               (CalledWith.Kind \in {"Other", "Unauthenticated", "Unauthorized"})
        /\ resp.body # <<>> =>
               /\ BodyMembers[1] = <<"kind", KindString(CalledWith.Kind)>>
               /\ MemberNames \subseteq {"kind", "message"}

C1_Witness ==
    /\ KindOnly
    /\ CalledWith.Kind = "Permission"
    /\ resp.status = 403
    /\ resp.body # <<>>

\* C2: a translator called with a nil error writes exactly one status line
\* and no body.
C2_NilIsAnswered ==
    (op.name \in {"HTTPErrorResponse", "HTTPError"} /\ op.err.t = "nil") =>
        /\ resp.statusWrites = 1
        /\ resp.body = <<>>

\* C3: StripStack of an Error Value whose rendered string holds no "|:" does
\* not panic and returns an error whose message is the rendered string.
C3_NoDelimiterNoChange ==
    (OnErrorValue("StripStack") /\ Index(ErrorString(op.pre, op.err)) = -1) =>
        /\ ret.t = "plain"
        /\ ret.msg = ErrorString(op.pre, op.err)

\* C4: after HTTPErrorResponse the Error Value it was given has every field
\* as before the call.
C4_TranslatorKeepsValue ==
    OnErrorValue("HTTPErrorResponse") => heap[op.err.p] = CalledWith

\* C5: after RE every Error Value that existed before the call, the ones
\* passed as arguments among them, has every field as before; the value RE
\* wraps is a new one.
C5_REKeepsCause ==
    op.name = "RE" =>
        /\ \A a \in DOMAIN op.pre : heap[a] = op.pre[a]
        /\ (ret.t = "http" /\ ret.v.Err.t = "ptr") => ret.v.Err.p \notin DOMAIN op.pre

C5_Witness ==
    /\ op.name = "RE"
    /\ ret.t = "http"
    /\ ret.v.Err.t = "ptr"
    /\ ret.v.Kind = "Validation"
    /\ heap[ret.v.Err.p].StripError
    /\ heap[ret.v.Err.p].Kind = Other
    /\ \E i \in DOMAIN op.args :
          op.args[i].ty = "*Error" /\ op.pre[op.args[i].n].Kind = "Validation"

\* C6: of every response written, Content-Type is set only with a body that
\* is not empty, nosniff is set, and the status is written once.
C6_WritingContract ==
    resp.statusWrites > 0 =>
        /\ resp.ctype => resp.body # <<>>
        /\ resp.nosniff
        /\ resp.statusWrites = 1

\* the last argument of RE whose type is one of tys, 0 when there is none
LastOf(tys) ==
    LET at == {i \in DOMAIN op.args : op.args[i].ty \in tys}
    IN  IF at = {} THEN 0 ELSE CHOOSE i \in at : \A j \in at : j <= i

\* the value RE builds from its arguments, before the suppression
CurKind == IF LastOf({"Kind"}) = 0 THEN Other ELSE op.args[LastOf({"Kind"})].k
CurCode ==
    IF LastOf({"string", "Code"}) = 0 THEN EmptyStr
    ELSE op.args[LastOf({"string", "Code"})].s
CurParam ==
    IF LastOf({"Parameter"}) = 0 THEN EmptyStr ELSE op.args[LastOf({"Parameter"})].s

\* RE returned a value that wraps an Error Value
Wrapped == op.name = "RE" /\ ret.t = "http" /\ ret.v.Err.t = "ptr"

\* the wrapped Error Value before the call, and after it
PrevBefore == op.pre[op.args[LastOf({"*Error", "error"})].n]
PrevAfter == heap[ret.v.Err.p]

FieldRule(cur, prev, curAfter, prevAfter, default) ==
    /\ IF cur # default
       THEN curAfter = cur /\ prevAfter = (IF prev = cur THEN default ELSE prev)
       ELSE curAfter = prev /\ prevAfter = default
    /\ ~(curAfter = prevAfter /\ curAfter # default)
    /\ {cur, prev} \ {default} = {curAfter, prevAfter} \ {default}

\* C7: for kind, code and parameter alike, a value set on the outer link is
\* kept and the inner one is cleared exactly when equal to it; a value not
\* set on the outer link is taken from the inner one, which is cleared; so
\* the links never share a value and none is lost.
C7_Deduplication ==
    Wrapped =>
        /\ FieldRule(CurKind, PrevBefore.Kind, ret.v.Kind, PrevAfter.Kind, Other)
        /\ FieldRule(CurCode, PrevBefore.Code, ret.v.Code, PrevAfter.Code, EmptyStr)
        /\ FieldRule(CurParam, PrevBefore.Param, ret.v.Param, PrevAfter.Param, EmptyStr)

C7_Witness ==
    /\ Wrapped
    /\ CurKind = "Validation"
    /\ PrevBefore.Kind = "Validation"
    /\ PrevAfter.Kind = Other
    /\ CurCode = EmptyStr
    /\ PrevBefore.Code # EmptyStr
    /\ ret.v.Code = PrevBefore.Code

\* the kind, code and parameter of the error a translator was called with
Translated ==
    IF op.err.t = "ptr" THEN CalledWith ELSE op.err.v

\* C8: a body written for an Error Value or an HTTP Error Value has the
\* members kind, code, param of exactly the fields that were set, Other
\* counting as not set.
C8_OmitsExactlyTheEmpty ==
    (/\ OnErrorValue("HTTPErrorResponse") \/ (op.name = "HTTPError" /\ op.err.t = "http")
     /\ resp.body # <<>>) =>
        MemberNames \cap {"kind", "code", "param"} =
            (IF Translated.Kind # Other THEN {"kind"} ELSE {})
            \cup (IF Translated.Code # EmptyStr THEN {"code"} ELSE {})
            \cup (IF Translated.Param # EmptyStr THEN {"param"} ELSE {})

AuthKind ==
    /\ OnErrorValue("HTTPErrorResponse")
    /\ CalledWith.Kind \in {"Unauthenticated", "Unauthorized"}

\* C9: an Error Value of kind Unauthenticated or Unauthorized is answered
\* with status 401 or 403 and an empty body, whatever its code, parameter
\* and cause.
C9_AuthBodyEmpty ==
    AuthKind =>
        /\ resp.body = <<>>
        /\ resp.statusWrites = 1
        /\ resp.status = (IF CalledWith.Kind = "Unauthenticated" THEN 401 ELSE 403)

C9_Witness ==
    /\ AuthKind
    /\ CalledWith.Kind = "Unauthorized"
    /\ CalledWith.Code # EmptyStr
    /\ CalledWith.Param # EmptyStr
    /\ CalledWith.Err.t # "nil"
    /\ resp.status = 403

Unrecognised ==
    \/ op.name = "HTTPErrorResponse" /\ op.err.t \in {"plain", "http"}
    \/ op.name = "HTTPError" /\ op.err.t \in {"plain", "ptr"}

\* C10: an error of a type the translator does not recognise is answered
\* with status 500 and the body of kind Unanticipated, code Unanticipated and
\* the fixed message, whatever its text, which goes to the log.
C10_UnanticipatedFallback ==
    Unrecognised =>
        /\ resp.status = 500
        /\ resp.statusWrites = 1
        /\ resp.body =
              << << <<"error", << <<"kind", S_Unanticipated>>,
                                   <<"code", S_Unanticipated>>,
                                   <<"message", S_ContactSupport>> >> >> >>, "\n" >>
        /\ log[1].text = ErrorString(op.pre, op.err)

C10_Witness ==
    /\ Unrecognised
    /\ op.name = "HTTPError"
    /\ op.err = Plain(<<"b", "a", "d">>)
    /\ resp.status = 500
    /\ log[1].text = <<"b", "a", "d">>

====
